---- MODULE Spec2Model ----
(***************************************************************************)
(* Chain of Responsibility (behavioral_patterns/chain_of_responsibility).  *)
(*                                                                         *)
(* Handler objects live in a small heap: class[h] is the concrete class of *)
(* object h and next_handler_[h] its successor link.  A thread of control  *)
(* constructs handlers, links them with SetNext and submits requests with  *)
(* Handle; a Handle call walks the chain one handler per step.  ClientCode *)
(* is the driver loop over the fixed food list.                            *)
(*                                                                         *)
(* Singleton (creational_patterns/singleton): GetInstance holds a function *)
(* local static object; its initialisation is guarded, so that one call    *)
(* constructs it and every other call waits for it or finds it done.       *)
(* main() runs ThreadFoo and ThreadBar against it.                         *)
(*                                                                         *)
(* Builder (builder): ConcreteBuilder1 owns the product under construction;*)
(* the ProducePart calls append to it and GetProduct hands it over and     *)
(* resets the builder.  ClientCode is the three-product driver.            *)
(***************************************************************************)
EXTENDS Naturals, Sequences, FiniteSets, TLC

\* ------------------------------------------------------------------ bounds
\* Number of handler objects a program of the general specification constructs.
NumHandlers == 2
\* Number of threads of the concurrent specification.
NumThreads == 2
\* Longest fluent expression recv.SetNext(a1).SetNext(a2)... that is tracked,
\* counted in handlers named (receiver plus arguments).
MaxFluent == 3
\* Number of GetInstance calls one thread of the general singleton
\* specification makes.
MaxCalls == 2
\* Largest number of parts the general builder specification puts into one
\* product.
MaxParts == 3

\* ------------------------------------------------------------- constants
\* The classes of the objects main() constructs, in order: monkey, squirrel, dog.
MainClasses == <<"Monkey", "Squirrel", "Dog">>
\* Heap slots: enough for main()'s objects and for NumHandlers objects.
Handlers == 1..(IF NumHandlers > Len(MainClasses) THEN NumHandlers ELSE Len(MainClasses))
Threads == 1..NumThreads
\* The single thread of control of main().
MainThread == 1
\* nullptr
Null == 0
\* Class tag of a heap slot that holds no object yet.
Unallocated == "unallocated"
\* The concrete handler classes.
Classes == {"Monkey", "Squirrel", "Dog"}
\* Requests submitted: the three literals the classes accept and one that
\* no class accepts.
Requests == {"Banana", "Nut", "MeatBall", "Cup of coffee"}
\* The food vector of ClientCode.
food == <<"Nut", "Banana", "Cup of coffee">>

\* The threads main() of the singleton program creates: t1 and t2.
T1 == 1
T2 == 2
\* The arguments the thread functions pass to GetInstance.
Values == {"FOO", "BAR"}
\* What main() prints before it starts the threads.
Banner == "If you see the same value, then singleton was reused (yay!\n"
          \o "If you see different values, then 2 singletons were created (booo!!)\n\n"
          \o "RESULT:\n"
\* The ProducePart methods of the Builder interface.
Steps == {"A", "B", "C"}
\* Director::BuildMinimalViableProduct and BuildFullFeaturedProduct: the
\* ProducePart calls each makes on its builder.
BuildMinimalViableProduct == <<"A">>
BuildFullFeaturedProduct == <<"A", "B", "C">>
\* A Product as make_unique<Product>() makes it: parts_ is empty.
FreshProduct == <<>>

VARIABLES
    class,          \* class[h]: concrete class of object h, or Unallocated
    next_handler_,  \* next_handler_[h]: successor of h, or Null
    pc,             \* pc[t]: "idle", "client", "run", "done", "crashed"
    entry,          \* entry[t]: handler on which t's Handle call was made
    asked,          \* asked[t]: the request the caller passed to Handle
    request,        \* request[t]: the request held by the current frame
    cur,            \* cur[t]: handler whose Handle is executing
    result,         \* result[t]: string returned by the Handle call
    visited,        \* visited[t]: handlers whose Handle was invoked, in order
    revisited,      \* revisited[t]: some handler was invoked a second time
    raced,          \* raced[t]: a link t's call reads was written during the call
    ret,            \* ret[t]: handler returned by t's last SetNext (temporary)
    fluent,         \* fluent[t]: receiver and arguments of t's fluent expression
    idx,            \* idx[t]: position of ClientCode's loop in food (0: not in it)
    output,         \* output[t]: lines printed by t's ClientCode
    memo,           \* a remembered earlier call <<entry, request, result>>, or <<>>
    lastArg,        \* lastArg[h]: <<s>> for the argument s of the latest SetNext
                    \* call on h, <<>> when SetNext was never called on h
    guard,          \* initialisation guard of the static instance
    value_,         \* value_ of the static instance
    constructed,    \* number of runs of the Singleton constructor
    initArg,        \* argument of the call that took the guard to initialise
    spc,            \* spc[t]: position of thread t in its thread function
    arg,            \* arg[t]: argument of t's current GetInstance call
    ncalls,         \* ncalls[t]: GetInstance calls t has made
    singleton,      \* singleton[t]: the object GetInstance returned to t, named
                    \* by the constructor run that produced it (0: none yet)
    val,            \* val[t]: <<v>> for the string value() returned to t, or <<>>
    stdout,         \* what the singleton program has written to std::cout
    mpc,            \* position of the singleton program's main()
    product,        \* the builder's product: <<parts>>, or <<>> before the builder exists
    pClient,        \* p of ClientCode, the client's product: <<parts>>, or <<>> before any GetProduct
    made,           \* ProducePart calls since the last GetProduct or construction
    handed,         \* the ProducePart calls that preceded the last GetProduct
    bpc,            \* position of the builder's ClientCode (0: not running)
    bout            \* lines printed by the builder's ClientCode

vars == <<class, next_handler_, pc, entry, asked, request, cur, result, visited,
          revisited, raced, ret, fluent, idx, output, memo, lastArg,
          guard, value_, constructed, initArg, spc, arg, ncalls, singleton, val,
          stdout, mpc, product, pClient, made, handed, bpc, bout>>

chainVars == <<class, next_handler_, pc, entry, asked, request, cur, result, visited,
               revisited, raced, ret, fluent, idx, output, memo, lastArg>>
singletonVars == <<guard, value_, constructed, initArg, spc, arg, ncalls, singleton,
                   val, stdout, mpc>>
builderVars == <<product, pClient, made, handed, bpc, bout>>
\* The state of the other two programs, which the chain's operations leave alone.
extVars == <<singletonVars, builderVars>>

callVars == <<entry, asked, request, cur, result, visited, revisited, raced>>
heapVars == <<class, next_handler_, lastArg>>
linkVars == <<ret, fluent>>
clientVars == <<idx, output>>

\* ----------------------------------------------------- concrete handlers
\* Monkey and Squirrel with their literals exchanged.
AcceptsSwapped(c) ==
    CASE c = "Monkey" -> "Nut"
      [] c = "Squirrel" -> "Banana"
      [] c = "Dog" -> "MeatBall"

\* The literal a concrete handler compares the request with.
Accepts(c) ==
    CASE c = "Monkey" -> "Banana"
      [] c = "Squirrel" -> "Nut"
      [] c = "Dog" -> "MeatBall"

\* The condition of the concrete Handle override.
Matches(c, r) == r = Accepts(c)

\* A handler that accepts a request without a word.
DescribeSilent(c, r) == ""

\* The string a concrete handler returns for a request it accepts.
Describe(c, r) == c \o ": I'll eat the " \o r \o ".\n"

\* A forwarding that loses the request (a moved-from string).
ForwardedMoved(r) == ""

\* A forwarding through a buffer shared by all calls: a request another call
\* has in flight may be read back.
ForwardedShared(r) ==
    IF \E u \in Threads : pc[u] = "run" /\ request[u] # r
    THEN request[CHOOSE u \in Threads : pc[u] = "run" /\ request[u] # r]
    ELSE r

\* The request a frame passes to its successor (by value, unchanged).
Forwarded(r) == r

\* A default-constructed std::string.
EmptyString == ""

\* A base default that reports the end of the chain in words.
BaseDefaultText == "unhandled"

\* What AbstractHandler::Handle returns when no successor is installed: {}.
BaseDefault == ""

Allocated == {h \in Handlers : class[h] # Unallocated}
Crashed == \E t \in Threads : pc[t] = "crashed"

\* Handlers reachable from the handlers of S along successor links.
RECURSIVE Closure(_)
Closure(S) ==
    LET T == S \cup ({next_handler_[h] : h \in S} \ {Null})
    IN IF T = S THEN S ELSE Closure(T)

\* Handlers at or after e.
Reach(e) == Closure({e})

\* -------------------------------------------------------------- initial
\* The singleton program before main() runs: the static instance is not
\* initialised and no thread exists.
InitSingleton ==
    /\ guard = "uninit"
    /\ value_ = EmptyString
    /\ constructed = 0
    /\ initArg = EmptyString
    /\ spc = [t \in Threads |-> "unborn"]
    /\ arg = [t \in Threads |-> EmptyString]
    /\ ncalls = [t \in Threads |-> 0]
    /\ singleton = [t \in Threads |-> 0]
    /\ val = [t \in Threads |-> <<>>]
    /\ stdout = <<>>
    /\ mpc = "start"

\* The builder program before a builder is constructed.
InitBuilder ==
    /\ product = <<>>
    /\ pClient = <<>>
    /\ made = <<>>
    /\ handed = <<>>
    /\ bpc = 0
    /\ bout = <<>>

InitThreads ==
    /\ pc = [t \in Threads |-> "idle"]
    /\ entry = [t \in Threads |-> Null]
    /\ asked = [t \in Threads |-> EmptyString]
    /\ request = [t \in Threads |-> EmptyString]
    /\ cur = [t \in Threads |-> Null]
    /\ result = [t \in Threads |-> EmptyString]
    /\ visited = [t \in Threads |-> <<>>]
    /\ revisited = [t \in Threads |-> FALSE]
    /\ raced = [t \in Threads |-> FALSE]
    /\ ret = [t \in Threads |-> Null]
    /\ fluent = [t \in Threads |-> <<>>]
    /\ idx = [t \in Threads |-> 0]
    /\ output = [t \in Threads |-> <<>>]
    /\ memo = <<>>

\* Before main() has constructed anything.
Init ==
    /\ class = [h \in Handlers |-> Unallocated]
    /\ next_handler_ = [h \in Handlers |-> Null]
    /\ lastArg = [h \in Handlers |-> <<>>]
    /\ InitThreads
    /\ InitSingleton
    /\ InitBuilder

\* main() after its three make_shared calls: monkey, squirrel and dog exist,
\* none is linked.
InitMain ==
    /\ class = [h \in Handlers |->
                 IF h <= Len(MainClasses) THEN MainClasses[h] ELSE Unallocated]
    /\ next_handler_ = [h \in Handlers |-> Null]
    /\ lastArg = [h \in Handlers |-> <<>>]
    /\ InitThreads
    /\ InitSingleton
    /\ InitBuilder

\* main() after monkey->SetNext(squirrel)->SetNext(dog).
InitChain ==
    /\ class = [h \in Handlers |->
                 IF h <= Len(MainClasses) THEN MainClasses[h] ELSE Unallocated]
    /\ next_handler_ = [h \in Handlers |->
                         IF h < Len(MainClasses) THEN h + 1 ELSE Null]
    /\ lastArg = [h \in Handlers |->
                   IF h < Len(MainClasses) THEN <<h + 1>> ELSE <<>>]
    /\ InitThreads
    /\ InitSingleton
    /\ InitBuilder

\* --------------------------------------------------------- construction
\* std::make_shared<C>(): the next free slot gets class c; the constructor
\* AbstractHandler() sets next_handler_ to nullptr.
Construct(t, c) ==
    /\ ~Crashed
    /\ pc[t] = "idle"
    /\ \E h \in Handlers :
         /\ h <= NumHandlers
         /\ class[h] = Unallocated
         /\ \A g \in Handlers : g < h => class[g] # Unallocated
         /\ class' = [class EXCEPT ![h] = c]
         /\ next_handler_' = [next_handler_ EXCEPT ![h] = Null]
         /\ lastArg' = [lastArg EXCEPT ![h] = <<>>]
    /\ ret' = [ret EXCEPT ![t] = Null]
    /\ fluent' = [fluent EXCEPT ![t] = <<>>]
    /\ UNCHANGED <<pc, callVars, clientVars, memo>>
    /\ UNCHANGED extVars

\* ---------------------------------------------------------------- SetNext
\* A SetNext that returns its receiver.
SetNextResultThis(h, s) == h

\* What SetNext returns: its argument.
SetNextResult(h, s) == s

\* A SetNext that installs a successor only where there is none yet.
InstalledOnce(h, s) ==
    IF next_handler_[h] = Null THEN [next_handler_ EXCEPT ![h] = s] ELSE next_handler_

\* The assignment in SetNext: only the receiver's link changes.
Installed(h, s) == [next_handler_ EXCEPT ![h] = s]

\* The handlers a Handle call entered at e with request r invokes: it walks
\* the links from e until a handler accepts r or has no successor.
RECURSIVE WalkFrom(_, _, _)
WalkFrom(h, r, seen) ==
    IF \/ Matches(class[h], r)
       \/ next_handler_[h] = Null
       \/ next_handler_[h] \in seen \cup {h}
    THEN seen \cup {h}
    ELSE WalkFrom(next_handler_[h], r, seen \cup {h})

\* The handlers whose next_handler_ that call reads: those that decline r.
LinksRead(e, r) == {h \in WalkFrom(e, r, {}) : ~Matches(class[h], r)}

\* Thread t writes h's link.  The write is not synchronised with the Handle
\* calls other threads have in flight: a call that reads h's link races with
\* it.
LinkWritten(t, h) ==
    raced' = [u \in Threads |->
                raced[u] \/ (u # t /\ pc[u] = "run"
                              /\ h \in LinksRead(entry[u], asked[u]))]

\* Body of h->SetNext(s) run by thread t: install the link, return a handler.
LinkOp(t, h, s) ==
    /\ next_handler_' = Installed(h, s)
    /\ lastArg' = [lastArg EXCEPT ![h] = <<s>>]
    /\ ret' = [ret EXCEPT ![t] = SetNextResult(h, s)]
    /\ LinkWritten(t, h)
    /\ memo' = <<>>
    /\ UNCHANGED <<class, pc, entry, asked, request, cur, result, visited, revisited,
                   clientVars>>

\* A SetNext that refuses a successor from which the receiver is reachable.
SetNextAcyclic(t, h, s) ==
    /\ ~Crashed
    /\ pc[t] = "idle"
    /\ h \in Allocated
    /\ s \in Allocated \cup {Null}
    /\ s # Null => h \notin Reach(s)
    /\ LinkOp(t, h, s)
    /\ fluent' = [fluent EXCEPT ![t] = <<h, s>>]
    /\ UNCHANGED extVars

\* h->SetNext(s) as the first call of a statement.
SetNext(t, h, s) ==
    /\ ~Crashed
    /\ pc[t] = "idle"
    /\ h \in Allocated
    /\ s \in Allocated \cup {Null}
    /\ LinkOp(t, h, s)
    /\ fluent' = [fluent EXCEPT ![t] = <<h, s>>]
    /\ UNCHANGED extVars

\* ...->SetNext(s) applied to the handler the previous SetNext returned.
ChainSetNext(t, s) ==
    /\ ~Crashed
    /\ pc[t] = "idle"
    /\ ret[t] # Null
    /\ fluent[t] # <<>>
    /\ Len(fluent[t]) < MaxFluent
    /\ s \in Allocated \cup {Null}
    /\ LinkOp(t, ret[t], s)
    /\ fluent' = [fluent EXCEPT ![t] = Append(@, s)]
    /\ UNCHANGED extVars

\* ----------------------------------------------------------------- Handle
\* Entering Handle of handler h with request r: the frame's state.
Enter(t, h, r) ==
    /\ pc' = [pc EXCEPT ![t] = "run"]
    /\ entry' = [entry EXCEPT ![t] = h]
    /\ asked' = [asked EXCEPT ![t] = r]
    /\ request' = [request EXCEPT ![t] = r]
    /\ cur' = [cur EXCEPT ![t] = h]
    /\ result' = [result EXCEPT ![t] = EmptyString]
    /\ visited' = [visited EXCEPT ![t] = <<h>>]
    /\ revisited' = [revisited EXCEPT ![t] = FALSE]
    /\ raced' = [raced EXCEPT ![t] = FALSE]
    /\ ret' = [ret EXCEPT ![t] = Null]
    /\ fluent' = [fluent EXCEPT ![t] = <<>>]

\* handler->Handle(r) called directly by thread t on entry handler e.
Call(t, e, r) ==
    /\ ~Crashed
    /\ pc[t] = "idle"
    /\ e \in Allocated
    /\ Enter(t, e, r)
    /\ UNCHANGED <<heapVars, clientVars, memo>>
    /\ UNCHANGED extVars

\* The call returns v to its caller: every frame passes the value up unchanged.
Finish(t, v) ==
    /\ pc' = [pc EXCEPT ![t] = "done"]
    /\ result' = [result EXCEPT ![t] = v]
    /\ UNCHANGED <<entry, asked, request, cur, visited, revisited>>

\* A forward that calls Handle on the forwarding handler itself.
InvokeSelf(t, n) ==
    /\ cur' = [cur EXCEPT ![t] = cur[t]]
    /\ request' = [request EXCEPT ![t] = Forwarded(request[t])]
    /\ visited' = visited
    /\ revisited' = [revisited EXCEPT ![t] = TRUE]
    /\ UNCHANGED <<pc, entry, asked, result>>

\* The call passes to handler n: n's Handle is invoked with the forwarded request.
Invoke(t, n) ==
    /\ cur' = [cur EXCEPT ![t] = n]
    /\ request' = [request EXCEPT ![t] = Forwarded(request[t])]
    /\ visited' = [visited EXCEPT ![t] =
                     IF \E i \in 1..Len(@) : @[i] = n THEN @ ELSE Append(@, n)]
    /\ revisited' = [revisited EXCEPT ![t] =
                       @ \/ \E i \in 1..Len(visited[t]) : visited[t][i] = n]
    /\ UNCHANGED <<pc, entry, asked, result>>

\* An override that accepts the request and still passes it on when it has a
\* successor.
HandleMatchAndForward(t) ==
    /\ ~Crashed
    /\ pc[t] = "run"
    /\ Matches(class[cur[t]], request[t])
    /\ IF next_handler_[cur[t]] # Null
       THEN Invoke(t, next_handler_[cur[t]])
       ELSE Finish(t, Describe(class[cur[t]], request[t]))
    /\ UNCHANGED <<heapVars, raced, linkVars, clientVars, memo>>
    /\ UNCHANGED extVars

\* An override that accepts the request and drops its successor link.
HandleMatchUnlinking(t) ==
    /\ ~Crashed
    /\ pc[t] = "run"
    /\ Matches(class[cur[t]], request[t])
    /\ Finish(t, Describe(class[cur[t]], request[t]))
    /\ next_handler_' = [next_handler_ EXCEPT ![cur[t]] = Null]
    /\ UNCHANGED <<class, lastArg, raced, linkVars, clientVars, memo>>
    /\ UNCHANGED extVars

\* The concrete override accepts the request and returns its description.
HandleMatch(t) ==
    /\ ~Crashed
    /\ pc[t] = "run"
    /\ Matches(class[cur[t]], request[t])
    /\ Finish(t, Describe(class[cur[t]], request[t]))
    /\ UNCHANGED <<heapVars, raced, linkVars, clientVars, memo>>
    /\ UNCHANGED extVars

\* A forward that also splices the successor's successor into the entry
\* handler's link.
HandleForwardSplicing(t) ==
    /\ ~Crashed
    /\ pc[t] = "run"
    /\ ~Matches(class[cur[t]], request[t])
    /\ ~raced[t]
    /\ next_handler_[cur[t]] # Null
    /\ Invoke(t, next_handler_[cur[t]])
    /\ next_handler_' = [next_handler_ EXCEPT ![entry[t]] = next_handler_[cur[t]]]
    /\ UNCHANGED <<class, lastArg, raced, linkVars, clientVars, memo>>
    /\ UNCHANGED extVars

\* The override declines; AbstractHandler::Handle finds a successor and
\* calls its Handle.
HandleForward(t) ==
    /\ ~Crashed
    /\ pc[t] = "run"
    /\ ~Matches(class[cur[t]], request[t])
    /\ ~raced[t]
    /\ next_handler_[cur[t]] # Null
    /\ Invoke(t, next_handler_[cur[t]])
    /\ UNCHANGED <<heapVars, raced, linkVars, clientVars, memo>>
    /\ UNCHANGED extVars

\* The override declines; AbstractHandler::Handle finds no successor and
\* returns the empty string.
HandleUnhandled(t) ==
    /\ ~Crashed
    /\ pc[t] = "run"
    /\ ~Matches(class[cur[t]], request[t])
    /\ ~raced[t]
    /\ next_handler_[cur[t]] = Null
    /\ Finish(t, BaseDefault)
    /\ UNCHANGED <<heapVars, raced, linkVars, clientVars, memo>>
    /\ UNCHANGED extVars

\* The process is killed by a fault: no thread runs any more and no call
\* returns.
Abort ==
    /\ pc' = [t \in Threads |-> "crashed"]
    /\ entry' = [t \in Threads |-> Null]
    /\ asked' = [t \in Threads |-> EmptyString]
    /\ request' = [t \in Threads |-> EmptyString]
    /\ cur' = [t \in Threads |-> Null]
    /\ result' = [t \in Threads |-> EmptyString]
    /\ visited' = [t \in Threads |-> <<>>]
    /\ revisited' = [t \in Threads |-> FALSE]
    /\ raced' = [t \in Threads |-> FALSE]
    /\ ret' = [t \in Threads |-> Null]
    /\ fluent' = [t \in Threads |-> <<>>]
    /\ idx' = [t \in Threads |-> 0]
    /\ output' = [t \in Threads |-> <<>>]
    /\ memo' = <<>>
    /\ UNCHANGED heapVars

\* On a cyclic chain the recursion never bottoms out; each frame takes stack,
\* so the build either keeps recursing or exhausts the stack and is killed.
Overflow(t) ==
    /\ ~Crashed
    /\ pc[t] = "run"
    /\ revisited[t]
    /\ Abort
    /\ UNCHANGED extVars

\* The frame state of a thread that is in no Handle call.
Leave(t) ==
    /\ entry' = [entry EXCEPT ![t] = Null]
    /\ asked' = [asked EXCEPT ![t] = EmptyString]
    /\ request' = [request EXCEPT ![t] = EmptyString]
    /\ cur' = [cur EXCEPT ![t] = Null]
    /\ result' = [result EXCEPT ![t] = EmptyString]
    /\ visited' = [visited EXCEPT ![t] = <<>>]
    /\ revisited' = [revisited EXCEPT ![t] = FALSE]
    /\ raced' = [raced EXCEPT ![t] = FALSE]

\* The direct caller takes the result and goes on.
Return(t) ==
    /\ ~Crashed
    /\ pc[t] = "done"
    /\ idx[t] = 0
    /\ pc' = [pc EXCEPT ![t] = "idle"]
    /\ Leave(t)
    /\ UNCHANGED <<heapVars, linkVars, clientVars, memo>>
    /\ UNCHANGED extVars

\* The direct caller takes the result and goes on; the call is remembered.
ReturnRecorded(t) ==
    /\ ~Crashed
    /\ pc[t] = "done"
    /\ idx[t] = 0
    /\ pc' = [pc EXCEPT ![t] = "idle"]
    /\ memo' = <<entry[t], asked[t], result[t]>>
    /\ Leave(t)
    /\ UNCHANGED <<heapVars, linkVars, clientVars>>
    /\ UNCHANGED extVars

\* The call races with a write of a link it reads: its behaviour is undefined.
\* It may return the empty string or the description of any handler that
\* accepts the request, or the process may be killed (or the call may never
\* return, which is this action not being taken).
HandleRaced(t) ==
    /\ ~Crashed
    /\ pc[t] = "run"
    /\ raced[t]
    /\ \/ /\ \E v \in {BaseDefault} \cup
                     {Describe(class[h], request[t]) :
                        h \in {g \in Allocated : Matches(class[g], request[t])}} :
                 Finish(t, v)
          /\ UNCHANGED <<heapVars, raced, linkVars, clientVars, memo>>
       \/ Abort
    /\ UNCHANGED extVars

\* h->SetNext(s); as a whole statement: the returned handler is discarded.
SetNextStmt(t, h, s) ==
    /\ ~Crashed
    /\ pc[t] = "idle"
    /\ h \in Allocated
    /\ s \in Allocated \cup {Null}
    /\ next_handler_' = Installed(h, s)
    /\ lastArg' = [lastArg EXCEPT ![h] = <<s>>]
    /\ LinkWritten(t, h)
    /\ UNCHANGED <<class, pc, entry, asked, request, cur, result, visited, revisited,
                   linkVars, clientVars, memo>>
    /\ UNCHANGED extVars

\* ------------------------------------------------------------- ClientCode
\* The line printed before a request is submitted.
Question(f) == "Client: Who wants a " \o f \o "?\n"

\* The line printed for a result: the description when the result is not
\* empty, and "left untouched" otherwise.
Report(f, res) ==
    IF res # EmptyString THEN "  " \o res
    ELSE "  " \o f \o " was left untouched.\n"

\* A loop that takes food from the back.
SubmittedReversed(i) == food[Len(food) + 1 - i]

\* The request of the loop's i-th iteration: the range-for takes food in order.
Submitted(i) == food[i]

\* ClientCode(handler) is called with entry handler e.
ClientCode(t, e) ==
    /\ ~Crashed
    /\ pc[t] = "idle"
    /\ e \in Allocated
    /\ pc' = [pc EXCEPT ![t] = "client"]
    /\ entry' = [entry EXCEPT ![t] = e]
    /\ idx' = [idx EXCEPT ![t] = 1]
    /\ output' = [output EXCEPT ![t] = <<>>]
    /\ ret' = [ret EXCEPT ![t] = Null]
    /\ fluent' = [fluent EXCEPT ![t] = <<>>]
    /\ UNCHANGED <<heapVars, asked, request, cur, result, visited, revisited, raced, memo>>
    /\ UNCHANGED extVars

\* One loop iteration up to the call: print the question, call Handle(f) on
\* the entry handler.
ClientAsk(t) ==
    /\ ~Crashed
    /\ pc[t] = "client"
    /\ idx[t] <= Len(food)
    /\ output' = [output EXCEPT ![t] = Append(@, Question(Submitted(idx[t])))]
    /\ Enter(t, entry[t], Submitted(idx[t]))
    /\ UNCHANGED <<heapVars, idx, memo>>
    /\ UNCHANGED extVars

\* The rest of the iteration: classify the result, print, advance.
ClientReport(t) ==
    /\ ~Crashed
    /\ pc[t] = "done"
    /\ idx[t] > 0
    /\ output' = [output EXCEPT ![t] = Append(@, Report(Submitted(idx[t]), result[t]))]
    /\ idx' = [idx EXCEPT ![t] = @ + 1]
    /\ pc' = [pc EXCEPT ![t] = "client"]
    /\ asked' = [asked EXCEPT ![t] = EmptyString]
    /\ request' = [request EXCEPT ![t] = EmptyString]
    /\ cur' = [cur EXCEPT ![t] = Null]
    /\ result' = [result EXCEPT ![t] = EmptyString]
    /\ visited' = [visited EXCEPT ![t] = <<>>]
    /\ revisited' = [revisited EXCEPT ![t] = FALSE]
    /\ raced' = [raced EXCEPT ![t] = FALSE]
    /\ UNCHANGED <<heapVars, entry, linkVars, memo>>
    /\ UNCHANGED extVars

\* The loop is over; ClientCode returns.
ClientReturn(t) ==
    /\ ~Crashed
    /\ pc[t] = "client"
    /\ idx[t] > Len(food)
    /\ pc' = [pc EXCEPT ![t] = "idle"]
    /\ entry' = [entry EXCEPT ![t] = Null]
    /\ idx' = [idx EXCEPT ![t] = 0]
    /\ output' = [output EXCEPT ![t] = <<>>]
    /\ UNCHANGED <<heapVars, asked, request, cur, result, visited, revisited, raced,
                   linkVars, memo>>
    /\ UNCHANGED extVars

\* ------------------------------------------------- Handle as a function
\* Marks a call that does not return.
NoReturn == "<no return>"

\* The value Handle(r) on handler h returns when nothing else runs: the code's
\* recursion, cut off after more forwards than there are handlers (the walk
\* is then on a cycle and the call does not return).
RECURSIVE HandleRec(_, _, _)
HandleRec(h, r, fuel) ==
    IF Matches(class[h], r) THEN Describe(class[h], r)
    ELSE IF next_handler_[h] = Null THEN BaseDefault
    ELSE IF fuel = 0 THEN NoReturn
    ELSE HandleRec(next_handler_[h], Forwarded(r), fuel - 1)

HandleAlone(e, r) == HandleRec(e, r, Cardinality(Handlers))

\* One step of a Handle call that does not race.
HandleStep(t) == HandleMatch(t) \/ HandleForward(t) \/ HandleUnhandled(t)

\* --------------------------------------------------------------- Singleton
\* What the constructor stores in value_: a copy of its argument.
Stored(v) == v

\* The thread function of t calls Singleton::GetInstance(v).
GetInstance(t, v) ==
    /\ spc[t] \in {"ready", "have", "val"}
    /\ spc' = [spc EXCEPT ![t] = "static"]
    /\ arg' = [arg EXCEPT ![t] = v]
    /\ ncalls' = [ncalls EXCEPT ![t] = @ + 1]
    /\ UNCHANGED <<guard, value_, constructed, initArg, singleton, val, stdout, mpc>>
    /\ UNCHANGED <<chainVars, builderVars>>

\* A declaration without a guard: a call that finds the instance not yet
\* initialised constructs it, also while another call is constructing it.
StaticInitUnguarded(t) ==
    /\ spc[t] = "static"
    /\ IF guard = "done"
       THEN /\ spc' = [spc EXCEPT ![t] = "return"]
            /\ UNCHANGED <<guard, initArg>>
       ELSE /\ guard' = "busy"
            /\ initArg' = arg[t]
            /\ spc' = [spc EXCEPT ![t] = "ctor"]
    /\ UNCHANGED <<value_, constructed, arg, ncalls, singleton, val, stdout, mpc>>
    /\ UNCHANGED <<chainVars, builderVars>>

\* A declaration after which a call that finds the instance initialised
\* assigns its own argument to it.
StaticInitAssigning(t) ==
    /\ spc[t] = "static"
    /\ guard # "busy"
    /\ IF guard = "done"
       THEN /\ spc' = [spc EXCEPT ![t] = "return"]
            /\ value_' = Stored(arg[t])
            /\ UNCHANGED <<guard, initArg>>
       ELSE /\ guard' = "busy"
            /\ initArg' = arg[t]
            /\ spc' = [spc EXCEPT ![t] = "ctor"]
            /\ UNCHANGED value_
    /\ UNCHANGED <<constructed, arg, ncalls, singleton, val, stdout, mpc>>
    /\ UNCHANGED <<chainVars, builderVars>>

\* static Singleton instance(value); the declaration of a block-scope static.
\* The first call to reach it takes the guard and goes on to initialise; a
\* call that finds the initialisation in progress waits for it to complete; a
\* call that finds it complete skips the initialiser, argument and all.
StaticInit(t) ==
    /\ spc[t] = "static"
    /\ guard # "busy"
    /\ IF guard = "done"
       THEN /\ spc' = [spc EXCEPT ![t] = "return"]
            /\ UNCHANGED <<guard, initArg>>
       ELSE /\ guard' = "busy"
            /\ initArg' = arg[t]
            /\ spc' = [spc EXCEPT ![t] = "ctor"]
    /\ UNCHANGED <<value_, constructed, arg, ncalls, singleton, val, stdout, mpc>>
    /\ UNCHANGED <<chainVars, builderVars>>

\* Singleton(value): value_(value) run by the call that holds the guard; the
\* initialisation is then complete.
SingletonCtor(t) ==
    /\ spc[t] = "ctor"
    /\ value_' = Stored(arg[t])
    /\ constructed' = constructed + 1
    /\ guard' = "done"
    /\ spc' = [spc EXCEPT ![t] = "return"]
    /\ UNCHANGED <<initArg, arg, ncalls, singleton, val, stdout, mpc>>
    /\ UNCHANGED <<chainVars, builderVars>>

\* return instance; the caller binds its reference to the static object.
GetInstanceReturn(t) ==
    /\ spc[t] = "return"
    /\ singleton' = [singleton EXCEPT ![t] = constructed]
    /\ spc' = [spc EXCEPT ![t] = "have"]
    /\ UNCHANGED <<guard, value_, constructed, initArg, arg, ncalls, val, stdout, mpc>>
    /\ UNCHANGED <<chainVars, builderVars>>

\* singleton.value(): a copy of value_.
ValueCall(t) ==
    /\ spc[t] = "have"
    /\ val' = [val EXCEPT ![t] = <<value_>>]
    /\ spc' = [spc EXCEPT ![t] = "val"]
    /\ UNCHANGED <<guard, value_, constructed, initArg, arg, ncalls, singleton, stdout, mpc>>
    /\ UNCHANGED <<chainVars, builderVars>>

\* A thread starts that will call GetInstance.
Start(t) ==
    /\ spc[t] = "unborn"
    /\ spc' = [spc EXCEPT ![t] = "ready"]
    /\ UNCHANGED <<guard, value_, constructed, initArg, arg, ncalls, singleton, val,
                   stdout, mpc>>
    /\ UNCHANGED <<chainVars, builderVars>>

\* A running thread calls GetInstance with any argument, again and again.
AnyCall(t, v) ==
    /\ ncalls[t] < MaxCalls
    /\ GetInstance(t, v)

\* main() prints its banner.
MainBanner ==
    /\ mpc = "start"
    /\ mpc' = "banner"
    /\ stdout' = Append(stdout, Banner)
    /\ UNCHANGED <<guard, value_, constructed, initArg, spc, arg, ncalls, singleton, val>>
    /\ UNCHANGED <<chainVars, builderVars>>

\* The position of main() moves from a to b, creating thread t.
Spawn(a, b, t) ==
    /\ mpc = a
    /\ mpc' = b
    /\ spc' = [spc EXCEPT ![t] = "sleep"]
    /\ UNCHANGED <<guard, value_, constructed, initArg, arg, ncalls, singleton, val,
                   stdout>>
    /\ UNCHANGED <<chainVars, builderVars>>

\* std::thread t1(ThreadFoo);
SpawnT1 == Spawn("banner", "t1", T1)

\* std::thread t2(ThreadBar);
SpawnT2 == Spawn("t1", "t2", T2)

\* std::this_thread::sleep_for(1000ms) is over.
Sleep(t) ==
    /\ spc[t] = "sleep"
    /\ spc' = [spc EXCEPT ![t] = "ready"]
    /\ UNCHANGED <<guard, value_, constructed, initArg, arg, ncalls, singleton, val,
                   stdout, mpc>>
    /\ UNCHANGED <<chainVars, builderVars>>

\* ThreadFoo: Singleton::GetInstance("FOO").
ThreadFoo(t) ==
    /\ spc[t] = "ready"
    /\ GetInstance(t, "FOO")

\* ThreadBar: Singleton::GetInstance("BAR").
ThreadBar(t) ==
    /\ spc[t] = "ready"
    /\ GetInstance(t, "BAR")

\* std::cout << singleton.value(): the first insertion of the statement.
PrintValue(t) ==
    /\ spc[t] = "val"
    /\ stdout' = Append(stdout, val[t][1])
    /\ spc' = [spc EXCEPT ![t] = "nl"]
    /\ UNCHANGED <<guard, value_, constructed, initArg, arg, ncalls, singleton, val, mpc>>
    /\ UNCHANGED <<chainVars, builderVars>>

\* << "\n": the second insertion; the thread function returns.
PrintNewline(t) ==
    /\ spc[t] = "nl"
    /\ stdout' = Append(stdout, "\n")
    /\ spc' = [spc EXCEPT ![t] = "end"]
    /\ UNCHANGED <<guard, value_, constructed, initArg, arg, ncalls, singleton, val, mpc>>
    /\ UNCHANGED <<chainVars, builderVars>>

\* t.join() moves main() from a to b once thread t has ended.
Join(a, b, t) ==
    /\ mpc = a
    /\ spc[t] = "end"
    /\ mpc' = b
    /\ UNCHANGED <<guard, value_, constructed, initArg, spc, arg, ncalls, singleton,
                   val, stdout>>
    /\ UNCHANGED <<chainVars, builderVars>>

\* t1.join();
JoinT1 == Join("t2", "joined1", T1)

\* t2.join();
JoinT2 == Join("joined1", "joined2", T2)

\* return 0;
MainReturn ==
    /\ mpc = "joined2"
    /\ mpc' = "exit"
    /\ UNCHANGED <<guard, value_, constructed, initArg, spc, arg, ncalls, singleton,
                   val, stdout>>
    /\ UNCHANGED <<chainVars, builderVars>>

\* ----------------------------------------------------------------- Builder
\* The part a ProducePart method emplaces.
PartOf(c) ==
    CASE c = "A" -> "PartA1"
      [] c = "B" -> "PartB1"
      [] c = "C" -> "PartC1"

\* parts_.emplace_back(part)
Emplaced(parts, part) == Append(parts, part)

\* Reset(): the builder's product after product = make_unique<Product>().
Reset == <<FreshProduct>>

\* What Product::ListParts prints for parts_ from position i on.
RECURSIVE ListFrom(_, _)
ListFrom(parts, i) ==
    IF i > Len(parts) THEN ""
    ELSE (IF i = 1 THEN parts[i] ELSE ", " \o parts[i]) \o ListFrom(parts, i + 1)

\* Product::ListParts()
ListParts(parts) == "Product parts: " \o ListFrom(parts, 1) \o "\n\n"

\* ConcreteBuilder1(): this->Reset().
ConstructBuilder ==
    /\ product' = Reset
    /\ made' = <<>>

\* ProducePartA/B/C(): one more part at the end of the product's parts_.
Produce(c) ==
    /\ product' = <<Emplaced(product[1], PartOf(c))>>
    /\ made' = Append(made, c)

\* A GetProduct that hands out a copy and keeps building on the same product.
TakeProductCopying ==
    /\ pClient' = product
    /\ product' = product
    /\ handed' = made
    /\ made' = <<>>

\* GetProduct(): result = std::move(product); Reset(); return result.  The
\* caller assigns the result to its p.
TakeProduct ==
    /\ pClient' = product
    /\ product' = Reset
    /\ handed' = made
    /\ made' = <<>>

\* std::make_shared<ConcreteBuilder1>() by a client of its own.
BuilderCtor ==
    /\ bpc = 0
    /\ product = <<>>
    /\ ConstructBuilder
    /\ UNCHANGED <<pClient, handed, bpc, bout>>
    /\ UNCHANGED <<chainVars, singletonVars>>

\* builder->ProducePartA/B/C() by a client of its own.
ProducePart(c) ==
    /\ bpc = 0
    /\ product # <<>>
    /\ Len(product[1]) < MaxParts
    /\ Produce(c)
    /\ UNCHANGED <<pClient, handed, bpc, bout>>
    /\ UNCHANGED <<chainVars, singletonVars>>

\* p = builder->GetProduct() by a client of its own.
GetProduct ==
    /\ bpc = 0
    /\ product # <<>>
    /\ TakeProduct
    /\ UNCHANGED <<bpc, bout>>
    /\ UNCHANGED <<chainVars, singletonVars>>

\* The statements of ClientCode after the builder is made and given to the
\* director, in order: a heading printed, ProducePart calls (the director's
\* or the client's own), GetProduct, ListParts.
Statements ==
    <<<<"say", "Standard basic product:\n">>>>
    \o [i \in 1..Len(BuildMinimalViableProduct) |-> <<"part", BuildMinimalViableProduct[i]>>]
    \o <<<<"get">>, <<"list">>>>
    \o <<<<"say", "Standard full featured product:\n">>>>
    \o [i \in 1..Len(BuildFullFeaturedProduct) |-> <<"part", BuildFullFeaturedProduct[i]>>]
    \o <<<<"get">>, <<"list">>>>
    \o <<<<"say", "Custom product:\n">>, <<"part", "A">>, <<"part", "C">>>>
    \o <<<<"get">>, <<"list">>>>

\* ClientCode(director) starts: it makes its builder and hands it to the
\* director.
BuilderClientCode ==
    /\ bpc = 0
    /\ product = <<>>
    /\ ConstructBuilder
    /\ bpc' = 1
    /\ bout' = <<>>
    /\ UNCHANGED <<pClient, handed>>
    /\ UNCHANGED <<chainVars, singletonVars>>

\* ClientCode prints a heading.
ClientSay ==
    /\ bpc \in 1..Len(Statements)
    /\ Statements[bpc][1] = "say"
    /\ bout' = Append(bout, Statements[bpc][2])
    /\ bpc' = bpc + 1
    /\ UNCHANGED <<product, pClient, made, handed>>
    /\ UNCHANGED <<chainVars, singletonVars>>

\* ClientCode, or the director on its behalf, calls a ProducePart method.
ClientPart ==
    /\ bpc \in 1..Len(Statements)
    /\ Statements[bpc][1] = "part"
    /\ Produce(Statements[bpc][2])
    /\ bpc' = bpc + 1
    /\ UNCHANGED <<pClient, handed, bout>>
    /\ UNCHANGED <<chainVars, singletonVars>>

\* p = builder->GetProduct();
ClientGet ==
    /\ bpc \in 1..Len(Statements)
    /\ Statements[bpc][1] = "get"
    /\ TakeProduct
    /\ bpc' = bpc + 1
    /\ UNCHANGED bout
    /\ UNCHANGED <<chainVars, singletonVars>>

\* p->ListParts();
ClientList ==
    /\ bpc \in 1..Len(Statements)
    /\ Statements[bpc][1] = "list"
    /\ bout' = Append(bout, ListParts(pClient[1]))
    /\ bpc' = bpc + 1
    /\ UNCHANGED <<product, pClient, made, handed>>
    /\ UNCHANGED <<chainVars, singletonVars>>

\* ClientCode returns: p and the builder are destroyed.
BuilderClientReturn ==
    /\ bpc = Len(Statements) + 1
    /\ bpc' = 0
    /\ product' = <<>>
    /\ pClient' = <<>>
    /\ made' = <<>>
    /\ handed' = <<>>
    /\ bout' = <<>>
    /\ UNCHANGED <<chainVars, singletonVars>>

\* ------------------------------------------------------- specifications
Next ==
    \E t \in {MainThread} :
        \/ \E c \in Classes : Construct(t, c)
        \/ \E h \in Handlers, s \in Handlers \cup {Null} : SetNext(t, h, s)
        \/ \E s \in Handlers \cup {Null} : ChainSetNext(t, s)
        \/ \E e \in Handlers, r \in Requests : Call(t, e, r)
        \/ HandleMatch(t)
        \/ HandleForward(t)
        \/ HandleUnhandled(t)
        \/ Overflow(t)
        \/ Return(t)

\* The single-threaded program: construct, link, submit.
Spec == Init /\ [][Next]_vars

\* The same program; a Handle call is synchronous and keeps running until it
\* returns.
LiveSpec == Spec /\ WF_vars(HandleStep(MainThread))

\* The program of main(): link the three handlers, submit requests directly
\* and through ClientCode.
NextDriver ==
    \E t \in {MainThread} :
        \/ \E h \in Handlers, s \in Handlers \cup {Null} : SetNext(t, h, s)
        \/ \E s \in Handlers \cup {Null} : ChainSetNext(t, s)
        \/ \E e \in Handlers, r \in Requests : Call(t, e, r)
        \/ HandleMatch(t)
        \/ HandleForward(t)
        \/ HandleUnhandled(t)
        \/ Overflow(t)
        \/ Return(t)
        \/ ReturnRecorded(t)
        \/ \E e \in Handlers : ClientCode(t, e)
        \/ ClientAsk(t)
        \/ ClientReport(t)
        \/ ClientReturn(t)

DriverSpec == InitMain /\ [][NextDriver]_vars

\* Several threads submit requests into main()'s chain and relink it.
NextConc ==
    \E t \in Threads :
        \/ \E h \in Handlers, s \in Handlers \cup {Null} : SetNextStmt(t, h, s)
        \/ \E e \in Handlers, r \in Requests : Call(t, e, r)
        \/ HandleMatch(t)
        \/ HandleForward(t)
        \/ HandleUnhandled(t)
        \/ HandleRaced(t)
        \/ Overflow(t)
        \/ Return(t)

ConcSpec == InitChain /\ [][NextConc]_vars

\* The singleton program: main() with ThreadFoo on t1 and ThreadBar on t2.
NextSingletonMain ==
    \/ MainBanner
    \/ SpawnT1
    \/ SpawnT2
    \/ \E t \in {T1, T2} : Sleep(t)
    \/ ThreadFoo(T1)
    \/ ThreadBar(T2)
    \/ \E t \in {T1, T2} : StaticInit(t)
    \/ \E t \in {T1, T2} : SingletonCtor(t)
    \/ \E t \in {T1, T2} : GetInstanceReturn(t)
    \/ \E t \in {T1, T2} : ValueCall(t)
    \/ \E t \in {T1, T2} : PrintValue(t)
    \/ \E t \in {T1, T2} : PrintNewline(t)
    \/ JoinT1
    \/ JoinT2
    \/ MainReturn

SingletonMainSpec == Init /\ [][NextSingletonMain]_vars

\* Any threads call GetInstance with any arguments, any number of times.
NextSingleton ==
    \E t \in Threads :
        \/ Start(t)
        \/ \E v \in Values : AnyCall(t, v)
        \/ StaticInit(t)
        \/ SingletonCtor(t)
        \/ GetInstanceReturn(t)
        \/ ValueCall(t)

SingletonSpec == Init /\ [][NextSingleton]_vars

\* A builder used by a client of its own, or by ClientCode.
NextBuilder ==
    \/ BuilderCtor
    \/ \E c \in Steps : ProducePart(c)
    \/ GetProduct
    \/ BuilderClientCode
    \/ ClientSay
    \/ ClientPart
    \/ ClientGet
    \/ ClientList
    \/ BuilderClientReturn

BuilderSpec == Init /\ [][NextBuilder]_vars


\* ================================================================= claims
\* The chain e belongs to: handlers at or after e, and handlers before e.
ChainOf(e) == Reach(e) \cup {h \in Allocated : e \in Reach(h)}

\* Handlers of S that accept r.
Matchers(S, r) == {h \in S : Matches(class[h], r)}

\* No handler at or after e lies on a cycle.
AcyclicFrom(e) ==
    \A h \in Reach(e) : next_handler_[h] = Null \/ h \notin Reach(next_handler_[h])

\* The first n+1 handlers of the walk from e (stopping at the chain's end).
RECURSIVE Path(_, _)
Path(e, n) ==
    IF n = 0 THEN <<e>>
    ELSE LET p == Path(e, n - 1)
             l == p[Len(p)]
         IN IF next_handler_[l] = Null THEN p ELSE Append(p, next_handler_[l])

\* ---------------------------------------------------------------------
\* C1: when exactly one handler H of the entry's chain accepts the request, a
\* returned Handle call holds H's description if H is at or after the entry,
\* and the empty string if the entry lies strictly after H.
C1_UniqueMatch ==
    \A t \in Threads :
        pc[t] = "done" =>
            \A H \in Allocated :
                Matchers(ChainOf(entry[t]), asked[t]) = {H} =>
                    IF H \in Reach(entry[t])
                    THEN result[t] = Describe(class[H], asked[t])
                    ELSE result[t] = ""

\* A call entered strictly before the unique matcher has returned its description.
C1_Witness ==
    \E t \in Threads, H \in Allocated :
        /\ pc[t] = "done"
        /\ Matchers(ChainOf(entry[t]), asked[t]) = {H}
        /\ H \in Reach(entry[t])
        /\ H # entry[t]
        /\ cur[t] = H
        /\ result[t] = Describe(class[H], asked[t])

\* ---------------------------------------------------------------------
\* C2: when no handler at or after the entry accepts the request, a returned
\* Handle call holds the empty string; the call has returned normally, and the
\* empty string is returned exactly when the walk ended at a handler that
\* declines the request and has no successor.
C2_Unhandled ==
    \A t \in Threads :
        pc[t] = "done" =>
            /\ Matchers(Reach(entry[t]), asked[t]) = {} => result[t] = ""
            /\ result[t] = "" <=>
                   /\ ~Matches(class[cur[t]], asked[t])
                   /\ next_handler_[cur[t]] = Null

\* A call walked past its entry to the end of a chain nobody of which accepts
\* the request, and returned the empty string.
C2_Witness ==
    \E t \in Threads :
        /\ pc[t] = "done"
        /\ Matchers(Reach(entry[t]), asked[t]) = {}
        /\ Len(visited[t]) >= 2
        /\ result[t] = ""

\* ---------------------------------------------------------------------
\* C3: after a fluent expression a.SetNext(b).SetNext(c)... over distinct
\* handlers, each handler named is the successor of the one named before it:
\* b's successor is c and a's successor is still b.
C3_FluentLink ==
    \A t \in Threads :
        LET f == fluent[t] IN
        (\A i, j \in 1..Len(f) : i # j => f[i] # f[j]) =>
            \A i \in 1..(Len(f) - 1) : next_handler_[f[i]] = f[i + 1]

\* monkey->SetNext(squirrel)->SetNext(dog) has just run on fresh handlers.
C3_Witness ==
    /\ fluent[MainThread] = <<1, 2, 3>>
    /\ ret[MainThread] = 3
    /\ next_handler_[1] = 2
    /\ next_handler_[2] = 3
    /\ next_handler_[3] = Null

\* ---------------------------------------------------------------------
\* C4: when several handlers at or after the entry accept the request, a
\* returned call holds the description of the first of them on the walk, and
\* no handler after that one was invoked.
C4_Precedence ==
    \A t \in Threads :
        (pc[t] = "done" /\ Cardinality(Matchers(Reach(entry[t]), asked[t])) >= 2) =>
            LET v == visited[t] IN
            /\ ~revisited[t]
            /\ Matches(class[v[Len(v)]], asked[t])
            /\ \A i \in 1..(Len(v) - 1) : ~Matches(class[v[i]], asked[t])
            /\ v = Path(entry[t], Len(v) - 1)
            /\ result[t] = Describe(class[v[Len(v)]], asked[t])

\* Two handlers of one class are linked; the call returned at the first.
C4_Witness ==
    \E t \in Threads :
        /\ pc[t] = "done"
        /\ Cardinality(Matchers(Reach(entry[t]), asked[t])) >= 2
        /\ visited[t] = <<entry[t]>>
        /\ next_handler_[entry[t]] \in Matchers(Allocated, asked[t]) \ {entry[t]}
        /\ result[t] # ""

\* ---------------------------------------------------------------------
\* The heap holds main()'s chain Monkey -> Squirrel -> Dog.
MainChain ==
    /\ class[1] = "Monkey" /\ class[2] = "Squirrel" /\ class[3] = "Dog"
    /\ next_handler_[1] = 2 /\ next_handler_[2] = 3 /\ next_handler_[3] = Null

\* C5: on the chain Monkey -> Squirrel -> Dog, Handle("Nut") from Monkey
\* returns Squirrel's description, Handle("Banana") from Monkey returns
\* Monkey's, Handle("Cup of coffee") from Monkey returns the empty string,
\* Handle("Nut") from Squirrel returns Squirrel's description and
\* Handle("Banana") from Squirrel returns the empty string.
C5_Scenario ==
    \A t \in Threads :
        (MainChain /\ pc[t] = "done") =>
            /\ (entry[t] = 1 /\ asked[t] = "Nut") =>
                   result[t] = "Squirrel: I'll eat the Nut.\n"
            /\ (entry[t] = 1 /\ asked[t] = "Banana") =>
                   result[t] = "Monkey: I'll eat the Banana.\n"
            /\ (entry[t] = 1 /\ asked[t] = "Cup of coffee") => result[t] = ""
            /\ (entry[t] = 2 /\ asked[t] = "Nut") =>
                   result[t] = "Squirrel: I'll eat the Nut.\n"
            /\ (entry[t] = 2 /\ asked[t] = "Banana") => result[t] = ""

\* ClientCode(squirrel) on main()'s chain has got the result for "Banana".
C5_Witness ==
    \E t \in Threads :
        /\ MainChain
        /\ pc[t] = "done"
        /\ idx[t] = 2
        /\ entry[t] = 2
        /\ asked[t] = "Banana"
        /\ visited[t] = <<2, 3>>
        /\ result[t] = ""

\* ---------------------------------------------------------------------
\* C6: a Handle call returns the same result as an earlier call on the same
\* entry with the same request, whatever was handled in between, as long as
\* no SetNext ran in between.
C6_Idempotent ==
    \A t \in Threads :
        (pc[t] = "done" /\ memo # <<>> /\ memo[1] = entry[t] /\ memo[2] = asked[t]) =>
            result[t] = memo[3]

\* A delegated call made from ClientCode repeats a remembered direct call.
C6_Witness ==
    \E t \in Threads :
        /\ pc[t] = "done"
        /\ memo # <<>>
        /\ memo[1] = entry[t]
        /\ memo[2] = asked[t]
        /\ idx[t] > 0
        /\ Len(visited[t]) >= 2
        /\ result[t] # ""
        /\ result[t] = memo[3]

\* ---------------------------------------------------------------------
\* The walk of a call on an acyclic chain: the handlers invoked are the first
\* handlers of the chain from the entry, in successor order, each once, all
\* before the last declining the request; the call has returned only if the
\* last one accepts the request or has no successor.
C7_Walk(t) ==
    (pc[t] \in {"run", "done"} /\ AcyclicFrom(entry[t])) =>
        LET v == visited[t] IN
        /\ ~revisited[t]
        /\ v = Path(entry[t], Len(v) - 1)
        /\ \A i, j \in 1..Len(v) : i # j => v[i] # v[j]
        /\ cur[t] = v[Len(v)]
        /\ \A i \in 1..(Len(v) - 1) : ~Matches(class[v[i]], asked[t])
        /\ pc[t] = "done" =>
               \/ Matches(class[cur[t]], asked[t])
               \/ next_handler_[cur[t]] = Null

\* C7: on an acyclic chain a Handle call invokes the handlers in successor
\* order from the entry, each at most once; it returns only after a terminal
\* decision (a handler accepted the request, or a handler without successor
\* was reached); and every such call does return.
C7_Terminates ==
    /\ [](\A t \in Threads : C7_Walk(t))
    /\ \A t \in Threads :
           (pc[t] = "run" /\ AcyclicFrom(entry[t])) ~> (pc[t] = "done")

\* A call has walked a whole acyclic chain and returned.
C7_Witness ==
    \E t \in Threads :
        /\ pc[t] = "done"
        /\ AcyclicFrom(entry[t])
        /\ Len(visited[t]) = NumHandlers
        /\ next_handler_[cur[t]] = Null

\* ---------------------------------------------------------------------
\* C8 as stated: a cycle in the chain leads to non-termination of Handle, so
\* no call entered on a chain with a cycle returns.
C8_CycleNeverReturns ==
    \A t \in Threads : pc[t] = "done" => AcyclicFrom(entry[t])

\* The call is on a cycle and no handler ahead accepts the request.
Trapped(t) ==
    /\ pc[t] = "run"
    /\ Matchers(Reach(cur[t]), request[t]) = {}
    /\ \A h \in Reach(cur[t]) : next_handler_[h] # Null

\* SetNext is accepted for every receiver and every successor, also one that
\* closes a cycle.
C8_NoCycleCheck ==
    (pc[MainThread] = "idle" /\ ~Crashed) =>
        \A h \in Allocated, s \in Allocated \cup {Null} :
            ENABLED SetNext(MainThread, h, s)

\* C8, amended: SetNext installs any successor, also one that closes a cycle,
\* and a Handle call that is on a cycle with no handler ahead accepting the
\* request never returns.
C8_CycleTrap ==
    /\ []C8_NoCycleCheck
    /\ [][\A t \in Threads :
            Trapped(t) => (pc'[t] # "done" /\ (pc'[t] = "run" => Trapped(t)'))]_vars

\* A call has gone round a cycle that SetNext closed.
C8_Witness ==
    \E t \in Threads :
        /\ Trapped(t)
        /\ revisited[t]
        /\ Len(visited[t]) = NumHandlers

\* ---------------------------------------------------------------------
\* C9: ClientCode submits the requests of food in order, one Handle call each
\* on the same entry handler, and reports for each the outcome Handle has for
\* that request on that entry when submitted alone.
C9_DriverOrder ==
    \A t \in Threads :
        idx[t] > 0 =>
            LET inCall == pc[t] \in {"run", "done"} IN
            /\ idx[t] <= Len(food) + 1
            /\ Len(output[t]) = 2 * (idx[t] - 1) + (IF inCall THEN 1 ELSE 0)
            /\ \A i \in 1..(idx[t] - 1) :
                   /\ output[t][2 * i - 1] = "Client: Who wants a " \o food[i] \o "?\n"
                   /\ output[t][2 * i] =
                          LET alone == HandleAlone(entry[t], food[i]) IN
                          IF alone # "" THEN "  " \o alone
                          ELSE "  " \o food[i] \o " was left untouched.\n"
            /\ inCall =>
                   /\ idx[t] <= Len(food)
                   /\ asked[t] = food[idx[t]]
                   /\ visited[t][1] = entry[t]
                   /\ output[t][2 * idx[t] - 1] =
                          "Client: Who wants a " \o food[idx[t]] \o "?\n"

\* ClientCode has reported all of food, some handled and some not.
C9_Witness ==
    \E t \in Threads :
        /\ pc[t] = "client"
        /\ idx[t] = Len(food) + 1
        /\ output[t][2] = "  Squirrel: I'll eat the Nut.\n"
        /\ output[t][4] = "  Banana was left untouched.\n"
        /\ output[t][6] = "  Cup of coffee was left untouched.\n"

\* ---------------------------------------------------------------------
\* C10: whatever the interleaving of the threads' Handle calls, a call that
\* no SetNext raced with returns the result it returns when run alone on the
\* chain.
C10_ConcurrentSafe ==
    [][\A t \in Threads :
         (pc[t] = "run" /\ pc'[t] = "done" /\ ~raced[t]) =>
             result'[t] = HandleAlone(entry[t], asked[t])]_vars

\* Two delegated calls with different requests are in flight together, one
\* returned and one still walking.
C10_Witness ==
    \E t, u \in Threads :
        /\ t # u
        /\ pc[t] = "done" /\ ~raced[t]
        /\ pc[u] = "run" /\ ~raced[u]
        /\ asked[t] # asked[u]
        /\ Len(visited[t]) >= 2
        /\ Len(visited[u]) >= 2
        /\ result[t] # ""

\* ---------------------------------------------------------------------
\* The values the threads have inserted into std::cout after the banner.
PrintedValues == {stdout[i] : i \in {j \in 2..Len(stdout) : stdout[j] # "\n"}}

\* C11: in every interleaving of ThreadFoo calling GetInstance("FOO") and
\* ThreadBar calling GetInstance("BAR"), the Singleton constructor runs at
\* most once, and exactly once before any call returns; both threads get the
\* same object and read and print the same value, never one "FOO" and one
\* "BAR".
C11_OneInstance ==
    /\ constructed <= 1
    /\ \A t \in {T1, T2} :
           spc[t] \in {"have", "val", "nl", "end"} =>
               /\ constructed = 1
               /\ singleton[t] = 1
    /\ \A t, u \in {T1, T2} : (val[t] # <<>> /\ val[u] # <<>>) => val[t] = val[u]
    /\ Cardinality(PrintedValues) <= 1
    /\ PrintedValues \subseteq {"FOO", "BAR"}
    /\ mpc = "exit" =>
           /\ constructed = 1
           /\ singleton[T1] = singleton[T2]
           /\ Len(stdout) = 5
           /\ Cardinality(PrintedValues) = 1

\* The program has ended; the thread created second initialised the instance,
\* and both threads inserted "BAR" before either inserted its newline.
C11_Witness ==
    /\ mpc = "exit"
    /\ constructed = 1
    /\ stdout = <<Banner, "BAR", "BAR", "\n", "\n">>

\* ---------------------------------------------------------------------
\* C12: the successor of a handler is absent if SetNext was never called on
\* it and is otherwise the argument of the latest SetNext call on it; a step
\* changes the successor of at most one handler, and only a SetNext call on
\* that handler does, to its argument.
C12_LinkStable ==
    /\ [](\A h \in Allocated :
            IF lastArg[h] = <<>> THEN next_handler_[h] = Null
            ELSE next_handler_[h] = lastArg[h][1])
    /\ [][\A h \in Handlers :
            next_handler_'[h] # next_handler_[h] =>
                /\ lastArg'[h] = <<next_handler_'[h]>>
                /\ Len(fluent'[MainThread]) >= 2
                /\ fluent'[MainThread][Len(fluent'[MainThread])] = next_handler_'[h]
                /\ \A g \in Handlers \ {h} :
                       /\ next_handler_'[g] = next_handler_[g]
                       /\ lastArg'[g] = lastArg[g]]_vars

\* A call was delegated along a link SetNext installed, to a handler on which
\* SetNext was never called, and has returned.
C12_Witness ==
    \E h, g \in Allocated :
        /\ h # g
        /\ lastArg[h] = <<g>>
        /\ next_handler_[h] = g
        /\ lastArg[g] = <<>>
        /\ next_handler_[g] = Null
        /\ pc[MainThread] = "done"
        /\ entry[MainThread] = h
        /\ cur[MainThread] = g

\* ---------------------------------------------------------------------
\* C13: a Handle call, whether it ends matched, delegated or unhandled,
\* changes no handler's successor link and no handler's class, and every
\* frame of it holds the request exactly as the caller submitted it.
C13_NoSideEffect ==
    [][\A t \in Threads :
         (pc[t] = "run" \/ pc'[t] = "run") =>
             /\ next_handler_' = next_handler_
             /\ class' = class
             /\ pc'[t] = "run" => request'[t] = asked'[t]
             /\ (pc[t] = "run" /\ pc'[t] \in {"run", "done"}) =>
                    (asked'[t] = asked[t] /\ request'[t] = request[t])]_vars

\* A call was delegated twice along main()'s chain and holds the request as
\* submitted.
C13_Witness ==
    \E t \in Threads :
        /\ pc[t] = "done"
        /\ visited[t] = <<1, 2, 3>>
        /\ request[t] = asked[t]
        /\ asked[t] = "MeatBall"
        /\ result[t] # ""
        /\ next_handler_[1] = 2 /\ next_handler_[2] = 3

\* ---------------------------------------------------------------------
\* The line ClientCode has printed for the i-th request of food.
Reported(t, i) == output[t][2 * i]

\* C14: for each request ClientCode has reported on, the line printed is the
\* description of a handler reachable from the entry that accepts the request
\* if there is such a handler, and the "left untouched" line otherwise; a
\* description returned by a handler that accepts is never empty.
C14_Classified ==
    /\ \A t \in Threads :
           idx[t] > 0 =>
               \A i \in 1..(Len(output[t]) \div 2) :
                   LET M == Matchers(Reach(entry[t]), food[i])
                       untouched == "  " \o food[i] \o " was left untouched.\n"
                   IN IF M # {}
                      THEN /\ \E H \in M :
                                Reported(t, i) = "  " \o Describe(class[H], food[i])
                           /\ Reported(t, i) # untouched
                      ELSE Reported(t, i) = untouched
    /\ \A t \in Threads :
           (pc[t] = "done" /\ Matches(class[cur[t]], asked[t])) => result[t] # ""

\* ClientCode entered at the squirrel of a relinked chain has reported one
\* request handled by a later handler and one left untouched.
C14_Witness ==
    \E t \in Threads :
        /\ idx[t] = Len(food) + 1
        /\ entry[t] = 2
        /\ next_handler_[2] = 1
        /\ output[t][2] = "  Squirrel: I'll eat the Nut.\n"
        /\ output[t][4] = "  Monkey: I'll eat the Banana.\n"
        /\ output[t][6] = "  Cup of coffee was left untouched.\n"

\* ---------------------------------------------------------------------
\* The parts a sequence of ProducePart calls produces, in call order.
PartsOf(calls) == [i \in 1..Len(calls) |-> PartOf(calls[i])]

\* C15: the builder's product holds exactly the parts of the ProducePart
\* calls made since the last GetProduct, or since construction, in call order
\* (so it is empty when the builder is new and after every GetProduct), and
\* the product a GetProduct returned holds exactly the parts of the calls
\* made between the GetProduct before it (or construction) and itself.
C15_BuilderReset ==
    /\ product # <<>> => product[1] = PartsOf(made)
    /\ pClient # <<>> => pClient[1] = PartsOf(handed)
    /\ (product # <<>> /\ made = <<>>) => product[1] = <<>>
    /\ product = <<>> => (pClient = <<>> /\ made = <<>>)

\* ClientCode has listed its three products: one part, three parts, and two
\* parts with none left over from the product before.
C15_Witness ==
    /\ bpc = Len(Statements) + 1
    /\ pClient = <<<<"PartA1", "PartC1">>>>
    /\ product = <<<<>>>>
    /\ bout = <<"Standard basic product:\n",
                "Product parts: PartA1\n\n",
                "Standard full featured product:\n",
                "Product parts: PartA1, PartB1, PartC1\n\n",
                "Custom product:\n",
                "Product parts: PartA1, PartC1\n\n">>

\* ---------------------------------------------------------------------
\* C16: once the static instance is initialised its value is the argument of
\* the call that took the initialisation, the constructor has run once, the
\* value never changes again whatever arguments later calls pass, and every
\* value a thread has read through value() is that same value.
C16_WriteOnce ==
    /\ [](guard = "done" => (value_ = initArg /\ constructed = 1))
    /\ [](\A t \in Threads : val[t] # <<>> => (guard = "done" /\ val[t] = <<initArg>>))
    /\ [][guard = "done" =>
            (guard' = "done" /\ value_' = value_ /\ initArg' = initArg
             /\ constructed' = constructed)]_vars

\* A thread has made its last call with an argument other than the one the
\* instance was initialised with, and read the initial value again.
C16_Witness ==
    \E t \in Threads :
        /\ spc[t] = "val"
        /\ ncalls[t] = MaxCalls
        /\ guard = "done"
        /\ arg[t] # initArg
        /\ val[t] = <<initArg>>
        /\ value_ = initArg

====
